---- MODULE Spec2Model ----
(***************************************************************************)
(* A model of src/src/FlowchartApp.tsx: the React component FlowchartApp,  *)
(* its state hooks, the handlers handleGenerate and handleZoom, the render *)
(* effect renderDiagram, and the clean-up that handleGenerate applies to   *)
(* the completion text.                                                    *)
(*                                                                         *)
(* JavaScript strings are TLA+ strings; TLC evaluates Len, \o, Head, Tail  *)
(* and SubSeq on them.  SANY's lexer does not accept the grave accent      *)
(* (U+0060) inside a string literal, so the character is written BT.       *)
(***************************************************************************)
EXTENDS Integers, Sequences, FiniteSets, TLC

VARIABLES prompt, mermaidCode, loading, error, scale, messages, requests, renders

vars == <<prompt, mermaidCode, loading, error, scale, messages, requests, renders>>

(***************************************************************************)
(* Bounds of the model.                                                    *)
(***************************************************************************)
MaxCycles == 2
MaxRenders == 1
MaxTokens == 3

(***************************************************************************)
(* String helpers: String.prototype.trim, startsWith, and the regular      *)
(* expressions of the clean-up.                                            *)
(***************************************************************************)
BT == "~"

WhiteSpace == {" ", "\n", "\t", "\r"}

drop(s, n) == IF n >= Len(s) THEN "" ELSE SubSeq(s, n + 1, Len(s))

take(s, n) == IF n <= 0 THEN "" ELSE IF n >= Len(s) THEN s ELSE SubSeq(s, 1, n)

startsWith(s, p) == Len(s) >= Len(p) /\ take(s, Len(p)) = p

RECURSIVE trimStart(_)
trimStart(s) ==
    IF s # "" /\ Head(s) \in WhiteSpace THEN trimStart(Tail(s)) ELSE s

RECURSIVE trimEnd(_)
trimEnd(s) ==
    IF s # "" /\ drop(s, Len(s) - 1) \in WhiteSpace
    THEN trimEnd(take(s, Len(s) - 1))
    ELSE s

trim(s) == trimEnd(trimStart(s))

\* s.replace(/pat/g, '') for a literal pattern
RECURSIVE removeAll(_, _)
removeAll(s, pat) ==
    IF s = "" THEN ""
    ELSE IF startsWith(s, pat) THEN removeAll(drop(s, Len(pat)), pat)
    ELSE Head(s) \o removeAll(Tail(s), pat)

FenceOpen == BT \o BT \o BT \o "mermaid"
Fence == BT \o BT \o BT

\* code.replace(/```mermaid\n?/g, '')
RECURSIVE removeFenceOpen(_)
removeFenceOpen(s) ==
    IF s = "" THEN ""
    ELSE IF startsWith(s, FenceOpen)
         THEN LET r == drop(s, Len(FenceOpen))
              IN  removeFenceOpen(IF startsWith(r, "\n") THEN Tail(r) ELSE r)
    ELSE Head(s) \o removeFenceOpen(Tail(s))

toLowerCase(c) ==
    CASE c = "G" -> "g" [] c = "R" -> "r" [] c = "A" -> "a"
      [] c = "P" -> "p" [] c = "H" -> "h" [] OTHER -> c

\* /^graph /i
matchesGraph(s) ==
    /\ Len(s) >= 6
    /\ \A i \in 1..6 : toLowerCase(SubSeq(s, i, i)) = SubSeq("graph ", i, i)

Header == "flowchart TD"

(***************************************************************************)
(* The clean-up of handleGenerate, lines 113-129.                          *)
(***************************************************************************)
stripFences(code) == removeAll(removeFenceOpen(code), Fence)

normalizeGraph(code) ==
    IF matchesGraph(code) THEN "flowchart " \o drop(code, 6) ELSE code

\* faulty variant: accepts a header that no newline follows
ensureHeaderLoose(code) ==
    IF startsWith(code, Header) THEN code ELSE Header \o "\n" \o code

ensureHeader(code) ==
    IF ~startsWith(code, Header \o "\n")
    THEN LET body == IF startsWith(code, Header)
                     THEN trimStart(drop(code, Len(Header)))
                     ELSE code
         IN  Header \o "\n" \o body
    ELSE code

breakAfterHeader(code) ==
    IF startsWith(code, Header) /\ Len(code) > Len(Header)
       /\ ~startsWith(drop(code, Len(Header)), "\n")
    THEN Header \o "\n" \o drop(code, Len(Header))
    ELSE code

\* faulty variant: the trim of line 120 is missing
cleanUpNoTrim(code) ==
    breakAfterHeader(ensureHeader(normalizeGraph(stripFences(code))))

cleanUp(code) ==
    breakAfterHeader(ensureHeader(trim(normalizeGraph(stripFences(code)))))

sanitize(content) == cleanUp(trim(content))

(***************************************************************************)
(* Component state (lines 12-22).  error is <<>> for null and <<text>> for *)
(* a text.  scale is counted in tenths: 10 is the factor 1, and the zoom   *)
(* buttons pass +0.1 and -0.1 (the rounding of the double sum is left out: *)
(* Math.max and Math.min are exact on whatever the sum is).                *)
(* requests holds the fetch calls that have                                *)
(* not been resumed yet, each with the messages it sent and the endpoint's *)
(* answer once it has arrived; renders counts the renderDiagram runs that  *)
(* are waiting in mermaid.run.                                             *)
(***************************************************************************)
SystemPrompt == "You are a Mermaid.js flowchart generator. Generate only valid Mermaid.js flowchart code. Always start with 'flowchart TD'. Use proper syntax: nodes with square brackets [Node text], arrows with -->, and no extra text or formatting. If this is a follow-up request, modify the existing flowchart based on the user's request. Example format:\nflowchart TD\nA[Start] --> B[Process]\nB --> C[End]"

Message(role, content) == [role |-> role, content |-> content]

InitialMessages == <<Message("system", SystemPrompt)>>

InitialScale == 10
MinScale == 1
MaxScale == 20
ZoomStep == 1

null == <<>>

RenderErrorText == "Failed to render diagram. Please check the syntax."

\* What the user may type, and what the endpoint may answer, in this model.
Prompts == {"", " ", " a"}

Completions ==
    { "",
      "flowchart TDA[Start]-->B[End]",
      FenceOpen \o "\ngraph TD\nA[Start]-->B[End]\n" \o Fence,
      " flowchart LR\nA-->B " }

Pending == [kind |-> "pending", content |-> ""]
Rejected == [kind |-> "rejected", content |-> "Failed to fetch"]
NotOk == [kind |-> "status", content |-> "Bad Request"]
Unreadable == [kind |-> "unreadable", content |-> "Unexpected end of JSON input"]
Ok(content) == [kind |-> "ok", content |-> content]

Failures == {Rejected, NotOk, Unreadable}

\* err.message of what the try block throws (lines 93, 109, 112-113)
errorMessage(response) ==
    IF response.kind = "status"
    THEN "API error: " \o response.content
    ELSE response.content

Init ==
    /\ prompt = ""
    /\ mermaidCode = ""
    /\ loading = FALSE
    /\ error = null
    /\ scale = InitialScale
    /\ messages = InitialMessages
    /\ requests = <<>>
    /\ renders = 0

remove(q, i) == SubSeq(q, 1, i - 1) \o SubSeq(q, i + 1, Len(q))

UserCount(msgs) == Cardinality({i \in DOMAIN msgs : msgs[i].role = "user"})

(***************************************************************************)
(* The render effect (lines 42-70) runs after a commit that changed        *)
(* mermaidCode or scale; renderDiagram does nothing on an empty            *)
(* mermaidCode, and otherwise waits in mermaid.run.                        *)
(***************************************************************************)
effectRuns(code, s) == (code # mermaidCode \/ s # scale) /\ code # ""

renderEffect(code, s) ==
    /\ effectRuns(code, s) => renders < MaxRenders
    /\ renders' = IF effectRuns(code, s) THEN renders + 1 ELSE renders

\* mermaid.run resolves (lines 51-61): the svg is styled, no state is set
renderDiagramDone ==
    /\ renders > 0
    /\ renders' = renders - 1
    /\ UNCHANGED <<prompt, mermaidCode, loading, error, scale, messages, requests>>

\* faulty variant: a rejected diagram is rolled back
renderDiagramCatchRollsBack ==
    /\ renders > 0
    /\ renders' = renders - 1
    /\ error' = <<RenderErrorText>>
    /\ mermaidCode' = ""
    /\ UNCHANGED <<prompt, loading, scale, messages, requests>>

\* mermaid.run rejects (lines 62-65)
renderDiagramCatch ==
    /\ renders > 0
    /\ renders' = renders - 1
    /\ error' = <<RenderErrorText>>
    /\ UNCHANGED <<prompt, mermaidCode, loading, scale, messages, requests>>

\* textarea onChange (line 196)
setPrompt ==
    \E value \in Prompts :
        /\ value # prompt
        /\ prompt' = value
        /\ UNCHANGED <<mermaidCode, loading, error, scale, messages, requests, renders>>

\* faulty variant: the new user message is put first
updatedMessagesNewestFirst(msgs, text, code) ==
    <<Message("user", text)>> \o msgs

\* lines 79-90
updatedMessages(msgs, text, code) ==
    LET withUser == Append(msgs, Message("user", text))
    IN  IF code # ""
        THEN Append(withUser, Message("assistant",
                 "Current flowchart code:\n" \o code
                 \o "\nPlease modify this based on the user's request."))
        ELSE withUser

\* faulty variant: the button stays enabled while a request is in flight
disabledIgnoresLoading == trim(prompt) = ""

\* the button's disabled attribute (line 211)
disabled == loading \/ trim(prompt) = ""

\* lines 72-106: up to the await of fetch
handleGenerate ==
    IF trim(prompt) = ""
    THEN UNCHANGED vars
    ELSE /\ loading' = TRUE
         /\ error' = null
         /\ requests' = Append(requests,
                [messages |-> updatedMessages(messages, prompt, mermaidCode),
                 response |-> Pending])
         /\ UNCHANGED <<prompt, mermaidCode, scale, messages, renders>>

\* a click on the button (lines 209-211); a disabled button runs no handler
onClick ==
    /\ UserCount(messages) < MaxCycles
    /\ IF disabled THEN UNCHANGED vars ELSE handleGenerate

\* the endpoint answers with one of contents, or the call fails
fetchSettlesWith(contents) ==
    \E i \in DOMAIN requests :
        /\ requests[i].response = Pending
        /\ \E response \in Failures \cup {Ok(c) : c \in contents} :
               requests' = [requests EXCEPT ![i].response = response]
        /\ UNCHANGED <<prompt, mermaidCode, loading, error, scale, messages, renders>>

fetchSettles == fetchSettlesWith(Completions)

\* lines 108-138 and 141-143: the try block runs to its end
handleGenerateTry ==
    \E i \in DOMAIN requests :
        /\ requests[i].response.kind = "ok"
        /\ LET code == sanitize(requests[i].response.content)
           IN  /\ messages' = Append(requests[i].messages, Message("assistant", code))
               /\ mermaidCode' = code
               /\ renderEffect(code, scale)
        /\ prompt' = ""
        /\ loading' = FALSE
        /\ requests' = remove(requests, i)
        /\ UNCHANGED <<error, scale>>

\* faulty variant: a failed call keeps the messages it sent
handleGenerateCatchKeepsMessages ==
    \E i \in DOMAIN requests :
        /\ requests[i].response \in Failures
        /\ error' = <<errorMessage(requests[i].response)>>
        /\ loading' = FALSE
        /\ messages' = requests[i].messages
        /\ requests' = remove(requests, i)
        /\ UNCHANGED <<prompt, mermaidCode, scale, renders>>

\* lines 139-143: the try block throws
handleGenerateCatch ==
    \E i \in DOMAIN requests :
        /\ requests[i].response \in Failures
        /\ error' = <<errorMessage(requests[i].response)>>
        /\ loading' = FALSE
        /\ requests' = remove(requests, i)
        /\ UNCHANGED <<prompt, mermaidCode, scale, messages, renders>>

\* faulty variant: the upper limit is missing
clampLowOnly(x) == IF x > MinScale THEN x ELSE MinScale

clamp(x) ==
    LET min2 == IF x < MaxScale THEN x ELSE MaxScale
    IN  IF min2 > MinScale THEN min2 ELSE MinScale

\* lines 146-148, called with 0.1 and -0.1 (lines 246, 262)
handleZoom(delta) ==
    /\ scale' = clamp(scale + delta)
    /\ renderEffect(mermaidCode, scale')
    /\ UNCHANGED <<prompt, mermaidCode, loading, error, messages, requests>>

zoomIn == handleZoom(ZoomStep)

zoomOut == handleZoom(-ZoomStep)

Next ==
    \/ setPrompt
    \/ onClick
    \/ fetchSettles
    \/ handleGenerateTry
    \/ handleGenerateCatch
    \/ zoomIn
    \/ zoomOut
    \/ renderDiagramDone
    \/ renderDiagramCatch

Spec == Init /\ [][Next]_vars

(***************************************************************************)
(* The clean-up on its own: the first generation of a session, with the    *)
(* endpoint answering any text made of at most MaxTokens of Tokens.        *)
(***************************************************************************)
Tokens ==
    { FenceOpen, Fence, BT, "\n", " ", "graph ", "GRAPH ", "flowchart TD",
      "flowchart LR", "TD", "A", "mermaid" }

RECURSIVE Texts(_)
Texts(n) ==
    IF n = 0 THEN {""}
    ELSE LET shorter == Texts(n - 1)
         IN  shorter \cup {t \o s : t \in Tokens, s \in shorter}

Inputs == Texts(MaxTokens) \cup Completions

onClickFirst == mermaidCode = "" /\ onClick

fetchSettlesAny == fetchSettlesWith(Inputs)

NextSan ==
    \/ setPrompt
    \/ onClickFirst
    \/ fetchSettlesAny
    \/ handleGenerateTry
    \/ handleGenerateCatch
    \/ renderDiagramDone
    \/ renderDiagramCatch

SpecSan == Init /\ [][NextSan]_vars

(***************************************************************************)
(* Properties.                                                             *)
(***************************************************************************)
IsPrefix(s, t) == Len(s) <= Len(t) /\ SubSeq(t, 1, Len(s)) = s

AssistantCount(msgs) ==
    Cardinality({i \in DOMAIN msgs : msgs[i].role = "assistant"})

IsSynthetic(m) ==
    m.role = "assistant" /\ startsWith(m.content, "Current flowchart code:\n")

\* a step in which request i, answered with a failure, leaves flight
FailedCompletion(i) ==
    /\ i \in DOMAIN requests
    /\ requests[i].response \in Failures
    /\ requests' = remove(requests, i)

\* a step in which request i, answered with a completion, leaves flight
SucceededCompletion(i) ==
    /\ i \in DOMAIN requests
    /\ requests[i].response.kind = "ok"
    /\ requests' = remove(requests, i)

\* a step that sends a request
Submitted == Len(requests') > Len(requests)

\* C1: a failed completion call leaves mermaidCode and messages as they were
\* when handleGenerate was called (the request's messages are those built from
\* them), sets loading to false and sets an error text.
C1_FailureLeavesState ==
    [][\A i \in DOMAIN requests :
          FailedCompletion(i) =>
              /\ messages' = messages
              /\ mermaidCode' = mermaidCode
              /\ \E text \in Prompts :
                     requests[i].messages = updatedMessages(messages', text, mermaidCode')
              /\ loading' = FALSE
              /\ error' # null
              /\ error' = <<errorMessage(requests[i].response)>>]_vars

C1_Witness ==
    /\ error = <<"API error: Bad Request">>
    /\ ~loading
    /\ requests = <<>>
    /\ mermaidCode # ""
    /\ Len(messages) = 3

\* C2: every generation cycle that succeeds grows messages by exactly one user
\* message and exactly one assistant message, also when a diagram already
\* exists; a cycle that fails adds no assistant message.
C2_CycleGrowth ==
    [][\A i \in DOMAIN requests :
          /\ SucceededCompletion(i) =>
                 /\ UserCount(messages') = UserCount(messages) + 1
                 /\ AssistantCount(messages') = AssistantCount(messages) + 1
                 /\ Len(messages') = Len(messages) + 2
          /\ FailedCompletion(i) =>
                 AssistantCount(messages') = AssistantCount(messages)]_vars

\* C3: messages is append-only over every step, and its first message is the
\* system message.
C3_AppendOnly ==
    [][/\ IsPrefix(messages, messages')
       /\ messages'[1] = Message("system", SystemPrompt)]_vars

C3_Witness ==
    /\ Len(messages) = 6
    /\ scale # InitialScale
    /\ error # null

\* C4: at most one request is in flight, loading tells whether one is, and a
\* click while the prompt is blank or a request is in flight changes nothing
\* and sends nothing.
C4_SingleFlight ==
    [][/\ Len(requests') <= 1
       /\ loading' = (requests' # <<>>)
       /\ (loading \/ trim(prompt) = "") /\ onClick => UNCHANGED vars
       /\ Submitted => ~loading /\ trim(prompt) # "" /\ requests = <<>>]_vars

C4_Witness ==
    /\ loading
    /\ Len(requests) = 1
    /\ trim(prompt) # ""
    /\ mermaidCode # ""

\* C5: a successful completion ends with loading false, mermaidCode the
\* sanitized completion text, the prompt empty and no error text set.
C5_SuccessClearsError ==
    [][\A i \in DOMAIN requests :
          SucceededCompletion(i) =>
              /\ loading' = FALSE
              /\ mermaidCode' = sanitize(requests[i].response.content)
              /\ prompt' = ""
              /\ error' = null]_vars

\* C6: scale stays within [0.1, 2.0].
C6_ScaleInRange == MinScale <= scale /\ scale <= MaxScale

C6_Witness == scale = MaxScale /\ mermaidCode # "" /\ renders > 0

\* C7: the clean-up of every completion text starts with "flowchart TD" and a
\* newline, and mermaidCode is empty or starts with them.
C7_HeaderFirst ==
    /\ \A i \in DOMAIN requests :
           requests[i].response.kind = "ok" =>
               startsWith(sanitize(requests[i].response.content), "flowchart TD\n")
    /\ mermaidCode = "" \/ startsWith(mermaidCode, "flowchart TD\n")

C7_Witness == mermaidCode = "flowchart TD\nflowchart LR\nA"

\* C8: the clean-up applied to its own output gives that output again.
C8_Idempotent ==
    /\ \A i \in DOMAIN requests :
           requests[i].response.kind = "ok" =>
               LET out == sanitize(requests[i].response.content)
               IN  sanitize(out) = out /\ cleanUp(out) = out
    /\ mermaidCode # "" => sanitize(mermaidCode) = mermaidCode

C8_Witness ==
    \E i \in DOMAIN requests :
        /\ requests[i].response.kind = "ok"
        /\ startsWith(requests[i].response.content, "A " \o Fence)

\* C9: a render failure sets the error text and leaves mermaidCode, messages,
\* scale, loading, the prompt and the requests as they are, and a submit after
\* it is accepted.
C9_RenderFailureRecovered ==
    [][/\ renders' < renders =>
              /\ UNCHANGED <<mermaidCode, messages, scale, loading, prompt, requests>>
              /\ error' \in {error, <<RenderErrorText>>}
       /\ error' = <<RenderErrorText>> /\ error' # error =>
              /\ renders' < renders
              /\ UNCHANGED <<mermaidCode, messages, scale, loading, prompt, requests>>
       /\ error = <<RenderErrorText>> /\ ~loading /\ trim(prompt) # "" /\ onClick =>
              loading' /\ Len(requests') = 1]_vars

C9_Witness ==
    /\ error = <<RenderErrorText>>
    /\ mermaidCode # ""
    /\ renders = 0
    /\ ~loading
    /\ trim(prompt) # ""
    /\ UserCount(messages) < MaxCycles

\* C10: an accepted submit sends messages, then the user message, then, when
\* mermaidCode is not empty, one message holding mermaidCode; that message is
\* never kept in messages.
C10_SyntheticNotStored ==
    [][/\ Submitted =>
              requests'[Len(requests')].messages =
                  Append(messages, Message("user", prompt))
                  \o (IF mermaidCode # ""
                      THEN <<Message("assistant",
                               "Current flowchart code:\n" \o mermaidCode
                               \o "\nPlease modify this based on the user's request.")>>
                      ELSE <<>>)
       /\ \A k \in DOMAIN messages' : ~IsSynthetic(messages'[k])]_vars

====
